---- MODULE Spec2Model ----
(***************************************************************************)
(* rust-internal-file-server: the metadata store and file manager of       *)
(* src/storage/file_manager.rs, the HTTP handlers of src/server.rs that    *)
(* call it, and the finalization protocol of the upload engine.            *)
(*                                                                         *)
(* State: the SQLite table `files`, the files present under the storage    *)
(* root, and the position of every in-flight delete request and upload     *)
(* session.  Every await point and every file-system call of a handler is  *)
(* one step, so that concurrent requests interleave as the tokio runtime   *)
(* lets them, and a process crash may fall between any two steps.          *)
(***************************************************************************)
EXTENDS Integers, Sequences, FiniteSets, TLC

VARIABLES
    files,        \* rows of the table `files` (file_manager.rs:48-60)
    disk,         \* paths that exist on the file system
    del,          \* in-flight DELETE /api/files/:file_id requests
    fin,          \* upload sessions being finalized
    saved,        \* ghost: the FileRecords whose INSERT committed and whose row was not deleted since
    upload,       \* the registry of upload sessions: expected size and bytes received
    allocated     \* the last call of generate_stored_name: the original name, the uuid drawn and the name returned

vars == <<files, disk, del, fin, saved, upload, allocated>>

----------------------------------------------------------------------------
(* Bounds of the model *)

MaxId == 2
MaxName == 2
MaxLimit == 2
MaxSessions == 2
MaxNameLen == 4
MaxSize == 2

Ids == 1..MaxId
Names == 1..MaxName
Sessions == 1..MaxSessions

\* the request slot of the DELETE handler
Procs == {1}

----------------------------------------------------------------------------
(* Option<T> and Option::unwrap_or *)

None == <<>>

Some(x) == <<x>>

unwrap_or(opt, default) == IF opt = None THEN default ELSE opt[1]

----------------------------------------------------------------------------
(* Paths *)

StoragePath == "storage_path"

\* stored files are placed where the temp files of the uploads are
get_file_path_temp(stored_name) == <<"temp", stored_name>>

\* storage_path.join(stored_name)
get_file_path(stored_name) == <<StoragePath, stored_name>>

ThumbPath(n) == <<"thumbnails", n>>

TempPath(s) == <<"temp", s>>

\* Path::exists
exists(path) == path \in disk

----------------------------------------------------------------------------
(* upload_time: DateTime<Utc> is bound as TEXT through to_rfc3339 and read  *)
(* back through parse_from_rfc3339.  A time is [secs, nanos]; the date,    *)
(* hour and minute fields are fixed-width digits exactly like the seconds  *)
(* field and are left out.  Text is a sequence of ASCII codes.             *)

\* the decimal digits of n, zero-padded to width w
Digits(n, w) == [i \in 1..w |-> 48 + ((n \div (10 ^ (w - i))) % 10)]

\* chrono's automatic sub-second format: nothing, 3, 6 or 9 digits
FracText(nanos) ==
    IF nanos = 0 THEN <<>>
    ELSE IF nanos % 1000000 = 0 THEN <<46>> \o Digits(nanos \div 1000000, 3)
    ELSE IF nanos % 1000 = 0 THEN <<46>> \o Digits(nanos \div 1000, 6)
    ELSE <<46>> \o Digits(nanos, 9)

\* the offset of Utc, "+00:00"
OffsetText == <<43, 48, 48, 58, 48, 48>>

to_rfc3339_millis(t) ==
    Digits(t.secs, 2) \o <<46>> \o Digits(t.nanos \div 1000000, 3) \o OffsetText

to_rfc3339(t) == Digits(t.secs, 2) \o FracText(t.nanos) \o OffsetText

IsDigit(c) == c >= 48 /\ c <= 57

RECURSIVE DigitsValue(_)
DigitsValue(s) ==
    IF s = <<>> THEN 0
    ELSE 10 * DigitsValue(SubSeq(s, 1, Len(s) - 1)) + (s[Len(s)] - 48)

\* chrono::ParseError, which the callers map to ServerError::Internal
ParseError == [error |-> "Internal"]

\* DateTime::parse_from_rfc3339(..).with_timezone(&Utc)
parse_from_rfc3339(text) ==
    LET n == Len(text)
        body == SubSeq(text, 1, n - 6)
        m == Len(body)
        frac == SubSeq(body, 4, m)
    IN  IF n < 8 \/ SubSeq(text, n - 5, n) # OffsetText
           \/ ~IsDigit(body[1]) \/ ~IsDigit(body[2])
        THEN ParseError
        ELSE IF m = 2 THEN [secs |-> DigitsValue(SubSeq(body, 1, 2)), nanos |-> 0]
        ELSE IF body[3] # 46 \/ m < 4 \/ m > 12 \/ \E i \in 4..m : ~IsDigit(body[i])
        THEN ParseError
        ELSE [secs |-> DigitsValue(SubSeq(body, 1, 2)),
              nanos |-> DigitsValue(frac) * (10 ^ (9 - Len(frac)))]

\* SQLite's BINARY collation on TEXT: memcmp, a proper prefix sorts first
RECURSIVE TextLess(_, _)
TextLess(a, b) ==
    IF b = <<>> THEN FALSE
    ELSE IF a = <<>> THEN TRUE
    ELSE IF a[1] # b[1] THEN a[1] < b[1]
    ELSE TextLess(Tail(a), Tail(b))

----------------------------------------------------------------------------
(* FileRecord and its row.  original_name stands for the TEXT columns that  *)
(* are bound and read back unchanged (original_name, mime_type,            *)
(* video_resolution, video_duration).                                      *)

\* the bind calls of save_file_record: the row a record is stored as
ToRow(record) ==
    [id |-> record.id,
     original_name |-> record.original_name,
     stored_name |-> record.stored_name,
     file_path |-> record.file_path,
     file_size |-> record.file_size,
     upload_time |-> to_rfc3339(record.upload_time),
     is_video |-> IF record.is_video THEN 1 ELSE 0,
     thumbnail_path |-> record.thumbnail_path]

\* the row.get calls of get_file_by_id and list_files
FromRow(row) ==
    [id |-> row.id,
     original_name |-> row.original_name,
     stored_name |-> row.stored_name,
     file_path |-> row.file_path,
     file_size |-> row.file_size,
     upload_time |-> parse_from_rfc3339(row.upload_time),
     is_video |-> row.is_video # 0,
     thumbnail_path |-> row.thumbnail_path]

----------------------------------------------------------------------------
(* Result<T, ServerError> *)

Ok(value) == [ok |-> TRUE, value |-> value]

Err(kind) == [ok |-> FALSE, error |-> kind]

\* no call has returned yet
Pending == [pending |-> TRUE]

\* no session is open
NoUploads ==
    [s \in Sessions |-> [expected_size |-> 0, received |-> {}, result |-> Pending]]

----------------------------------------------------------------------------
(* FileManager: the statements of file_manager.rs as functions of the table *)

\* a driver that reports the error of a statement it has committed
save_file_record_late_error(rows, record, db_ok) ==
    IF \E r \in rows : r.id = record.id
    THEN [result |-> Err("Database"), rows |-> rows]
    ELSE [result |-> IF db_ok THEN Ok(<<>>) ELSE Err("Database"),
          rows |-> rows \cup {ToRow(record)}]

\* INSERT INTO files ...: id is the PRIMARY KEY, no other column is constrained.
\* db_ok is FALSE when the pool or the statement fails for any other reason.
save_file_record(rows, record, db_ok) ==
    IF ~db_ok \/ \E r \in rows : r.id = record.id
    THEN [result |-> Err("Database"), rows |-> rows]
    ELSE [result |-> Ok(<<>>), rows |-> rows \cup {ToRow(record)}]

\* SELECT * FROM files WHERE id = ?, fetch_optional
get_file_by_id(rows, file_id) ==
    IF \E r \in rows : r.id = file_id
    THEN LET record == FromRow(CHOOSE r \in rows : r.id = file_id)
         IN  IF record.upload_time = ParseError THEN Err("Internal") ELSE Ok(Some(record))
    ELSE Ok(None)

\* DELETE FROM files WHERE id = ?
delete_row(rows, file_id) == {r \in rows : r.id # file_id}

\* SUM(file_size): NULL over no rows
RECURSIVE SqlSum(_)
SqlSum(rows) ==
    IF rows = {} THEN None
    ELSE LET r == CHOOSE x \in rows : TRUE
         IN  Some(r.file_size + unwrap_or(SqlSum(rows \ {r}), 0))

\* row.get::<i64, _>("total_size"): a NULL does not decode as i64
get_file_stats_no_default(rows) ==
    IF SqlSum(rows) = None
    THEN Err("Database")
    ELSE Ok([total_files |-> Cardinality(rows),
             total_size |-> SqlSum(rows)[1],
             video_count |-> Cardinality({r \in rows : r.is_video = 1})])

\* SELECT COUNT(*), SUM(file_size), COUNT(CASE WHEN is_video = 1 THEN 1 END) FROM files.
\* The counts and the sum of byte counts are never negative, so `as u64` keeps them.
get_file_stats(rows) ==
    Ok([total_files |-> Cardinality(rows),
        total_size |-> unwrap_or(SqlSum(rows), 0),
        video_count |-> Cardinality({r \in rows : r.is_video = 1})])

DefaultLimit == 50

DefaultOffset == 0

\* ORDER BY upload_time ASC
upload_time_asc(a, b) == TextLess(a.upload_time, b.upload_time)

\* ORDER BY upload_time DESC on the TEXT column: a sorts strictly before b
upload_time_desc(a, b) == TextLess(b.upload_time, a.upload_time)

\* the orders in which SQLite may return the rows: rows of equal text in any order
Orderings(rows) ==
    {seq \in [1..Cardinality(rows) -> rows] :
        /\ \A i, j \in DOMAIN seq : i # j => seq[i] # seq[j]
        /\ \A i, j \in DOMAIN seq : i < j => ~upload_time_desc(seq[j], seq[i])}

\* LIMIT ? OFFSET ?: a negative limit is no limit, a negative offset is 0
SqlLimit(seq, limit, offset) ==
    LET skip == IF offset < 0 THEN 0 ELSE offset
        last == IF limit < 0 \/ skip + limit > Len(seq) THEN Len(seq) ELSE skip + limit
    IN  SubSeq(seq, skip + 1, last)

\* list_files: the results the call may return
list_files(rows, limit, offset) ==
    {LET page == SqlLimit(seq, unwrap_or(limit, DefaultLimit), unwrap_or(offset, DefaultOffset))
         records == [i \in DOMAIN page |-> FromRow(page[i])]
     IN  IF \E i \in DOMAIN records : records[i].upload_time = ParseError
         THEN Err("Internal")
         ELSE Ok(records)
     : seq \in Orderings(rows)}

----------------------------------------------------------------------------
(* The records the callers of the store supply *)

\* Utc::now() at the time of the call
Now == [secs |-> 0, nanos |-> 0]

\* a video has a thumbnail; odd names are videos
StoreRecord(i, n) ==
    [id |-> i,
     original_name |-> "test.txt",
     stored_name |-> n,
     file_path |-> get_file_path(n),
     file_size |-> 1024,
     upload_time |-> Now,
     is_video |-> (n % 2 = 1),
     thumbnail_path |-> IF n % 2 = 1 THEN Some(ThumbPath(n)) ELSE None]

StoreRecords == {StoreRecord(i, n) : i \in Ids, n \in Names}

\* what an earlier run of the server left behind: every row with its file
Consistent(S) ==
    \A a, b \in S : (a.id = b.id \/ a.stored_name = b.stored_name) => a = b

PathsOf(S) ==
    {r.file_path : r \in S} \cup {r.thumbnail_path[1] : r \in {x \in S : x.thumbnail_path # None}}

IdleRequest == [pc |-> "idle", file_id |-> 0, record |-> None, result |-> Pending]

Init ==
    /\ \E S \in SUBSET StoreRecords :
          /\ Consistent(S)
          /\ files = {ToRow(r) : r \in S}
          /\ saved = S
          /\ disk = PathsOf(S)
    /\ del = [p \in Procs |-> IdleRequest]
    /\ fin = [s \in Sessions |-> "none"]
    /\ upload = NoUploads
    /\ allocated = {}

----------------------------------------------------------------------------
(* save_file_record (file_manager.rs:82-107) *)

SaveFileRecord(record, db_ok) ==
    LET out == save_file_record(files, record, db_ok)
    IN  /\ files' = out.rows
        /\ saved' = IF out.result = Ok(<<>>) /\ ~\E r \in saved : r.id = record.id
                     THEN saved \cup {record}
                     ELSE saved
        /\ UNCHANGED <<disk, del, fin, upload, allocated>>

----------------------------------------------------------------------------
(* delete_file (file_manager.rs:180-206), one step per await point and per  *)
(* file-system call                                                        *)

Return(p, result) == del' = [del EXCEPT ![p].pc = "idle", ![p].result = result]

\* self.get_file_by_id(file_id).await?
DeleteLookup(p, file_id, db_ok) ==
    /\ del[p].pc = "idle"
    /\ LET found == IF db_ok THEN get_file_by_id(files, file_id) ELSE Err("Database")
       IN  del' = [del EXCEPT ![p] =
                IF found.ok /\ found.value # None
                THEN [pc |-> "exists", file_id |-> file_id, record |-> found.value,
                      result |-> Pending]
                ELSE [pc |-> "idle", file_id |-> file_id, record |-> None,
                      result |-> IF found.ok THEN Ok(FALSE) ELSE found]]
    /\ UNCHANGED <<files, disk, fin, saved, upload, allocated>>

\* if file_path.exists()
DeleteExists(p) ==
    /\ del[p].pc = "exists"
    /\ del' = [del EXCEPT ![p].pc =
            IF exists(del[p].record[1].file_path) THEN "remove_file" ELSE "thumbnail"]
    /\ UNCHANGED <<files, disk, fin, saved, upload, allocated>>

\* let _ = std::fs::remove_file(file_path);
DeleteRemoveFileIgnored(p, io_ok) ==
    /\ del[p].pc = "remove_file"
    /\ disk' = IF io_ok THEN disk \ {del[p].record[1].file_path} ELSE disk
    /\ del' = [del EXCEPT ![p].pc = "thumbnail"]
    /\ UNCHANGED <<files, fin, saved, upload, allocated>>

\* std::fs::remove_file(file_path).map_err(|e| ServerError::Io(e))?
\* fails when the file is gone by now or when the system refuses (io_ok FALSE)
DeleteRemoveFile(p, io_ok) ==
    /\ del[p].pc = "remove_file"
    /\ IF io_ok /\ exists(del[p].record[1].file_path)
       THEN /\ disk' = disk \ {del[p].record[1].file_path}
            /\ del' = [del EXCEPT ![p].pc = "thumbnail"]
       ELSE /\ disk' = disk
            /\ Return(p, Err("Io"))
    /\ UNCHANGED <<files, fin, saved, upload, allocated>>

\* std::fs::remove_file(thumb_path).map_err(|e| ServerError::Io(e))?
DeleteThumbnailChecked(p, io_ok) ==
    /\ del[p].pc = "thumbnail"
    /\ LET thumbnail == del[p].record[1].thumbnail_path
       IN  IF thumbnail # None /\ exists(thumbnail[1])
           THEN IF io_ok
                THEN disk' = disk \ {thumbnail[1]} /\ del' = [del EXCEPT ![p].pc = "delete_row"]
                ELSE disk' = disk /\ Return(p, Err("Io"))
           ELSE disk' = disk /\ del' = [del EXCEPT ![p].pc = "delete_row"]
    /\ UNCHANGED <<files, fin, saved, upload, allocated>>

\* if let Some(thumbnail) ... if thumb_path.exists() { let _ = std::fs::remove_file(thumb_path); }
DeleteThumbnail(p, io_ok) ==
    /\ del[p].pc = "thumbnail"
    /\ LET thumbnail == del[p].record[1].thumbnail_path
       IN  disk' = IF thumbnail # None /\ exists(thumbnail[1]) /\ io_ok
                   THEN disk \ {thumbnail[1]}
                   ELSE disk
    /\ del' = [del EXCEPT ![p].pc = "delete_row"]
    /\ UNCHANGED <<files, fin, saved, upload, allocated>>

\* DELETE FROM files WHERE id = ? ... .await.map_err(..)?; Ok(true)
DeleteRow(p, db_ok) ==
    /\ del[p].pc = "delete_row"
    /\ IF db_ok
       THEN /\ files' = delete_row(files, del[p].file_id)
            /\ saved' = {r \in saved : r.id # del[p].file_id}
            /\ Return(p, Ok(TRUE))
       ELSE /\ UNCHANGED <<files, saved>>
            /\ Return(p, Err("Database"))
    /\ UNCHANGED <<disk, fin, upload, allocated>>

\* the states of a session whose finalize has begun and not returned
InFlight == {"complete", "renamed", "rollback"}

\* the process dies: requests and sessions in flight are lost, the table and the disk stay
Crash ==
    /\ \/ \E p \in DOMAIN del : del[p].pc # "idle"
       \/ \E s \in Sessions : fin[s] \in InFlight
    /\ del' = [p \in DOMAIN del |-> IdleRequest]
    /\ fin' = [s \in Sessions |-> IF fin[s] \in InFlight THEN "crashed" ELSE fin[s]]
    /\ UNCHANGED <<files, disk, saved, upload, allocated>>

\* DELETE /api/files/:file_id (server.rs:181-199): the status of the response
\* the variants of ServerError (error.rs:6-42)
ErrorKinds ==
    {"Config", "Database", "Io", "Serde", "Http", "Axum", "FileOperation",
     "VideoProcessing", "Validation", "NotFound", "PermissionDenied", "Internal"}

\* ServerError::status_code (error.rs:84-98)
status_code(kind) ==
    CASE kind = "NotFound" -> 404
      [] kind = "Validation" -> 400
      [] kind = "PermissionDenied" -> 403
      [] kind \in {"Config", "Axum"} -> 500
      [] kind \in {"Database", "Io"} -> 500
      [] kind \in {"Serde", "Http"} -> 500
      [] kind = "FileOperation" -> 500
      [] kind = "VideoProcessing" -> 500
      [] kind = "Internal" -> 500

delete_file_status_ok(result) ==
    IF result.ok THEN 200 ELSE 500

delete_file_status(result) ==
    IF result = Ok(TRUE) THEN 200
    ELSE IF result = Ok(FALSE) THEN 404
    ELSE 500

----------------------------------------------------------------------------
Next ==
    \/ \E record \in StoreRecords, db_ok \in BOOLEAN : SaveFileRecord(record, db_ok)
    \/ \E p \in DOMAIN del, file_id \in Ids, db_ok \in BOOLEAN : DeleteLookup(p, file_id, db_ok)
    \/ \E p \in DOMAIN del : DeleteExists(p)
    \/ \E p \in DOMAIN del, io_ok \in BOOLEAN : DeleteRemoveFile(p, io_ok)
    \/ \E p \in DOMAIN del, io_ok \in BOOLEAN : DeleteThumbnail(p, io_ok)
    \/ \E p \in DOMAIN del, db_ok \in BOOLEAN : DeleteRow(p, db_ok)
    \/ Crash

Spec == Init /\ [][Next]_vars

----------------------------------------------------------------------------
(* The upload engine's finalize (the two-phase commit of the design, 4.4):   *)
(* rename the temp file to its canonical path, insert the FileRecord, and   *)
(* delete the renamed file when the insert fails.  A session's id and       *)
(* stored name are fresh random identifiers, one per session.               *)

EngineRecord(s) ==
    [id |-> s,
     original_name |-> "test.txt",
     stored_name |-> s,
     file_path |-> get_file_path(s),
     file_size |-> 1024,
     upload_time |-> Now,
     is_video |-> FALSE,
     thumbnail_path |-> None]

InitEngine ==
    /\ files = {}
    /\ saved = {}
    /\ disk = {}
    /\ del = [p \in Procs |-> IdleRequest]
    /\ fin = [s \in Sessions |-> "none"]
    /\ upload = NoUploads
    /\ allocated = {}

\* the chunks of session s cover [0, expected_size): its temp file is complete
UploadComplete(s) ==
    /\ fin[s] = "none"
    /\ fin' = [fin EXCEPT ![s] = "complete"]
    /\ disk' = disk \cup {TempPath(s)}
    /\ UNCHANGED <<files, del, saved, upload, allocated>>

\* step 1: rename the temp file to the canonical stored path
FinalizeRename(s, io_ok) ==
    /\ fin[s] = "complete"
    /\ IF io_ok /\ exists(TempPath(s))
       THEN /\ disk' = (disk \ {TempPath(s)}) \cup {get_file_path(s)}
            /\ fin' = [fin EXCEPT ![s] = "renamed"]
       ELSE /\ disk' = disk
            /\ fin' = [fin EXCEPT ![s] = "failed"]
    /\ UNCHANGED <<files, del, saved, upload, allocated>>

\* step 2: insert the FileRecord
FinalizeInsert(s, db_ok) ==
    /\ fin[s] = "renamed"
    /\ LET out == save_file_record(files, EngineRecord(s), db_ok)
       IN  /\ files' = out.rows
           /\ saved' = IF out.result = Ok(<<>>) THEN saved \cup {EngineRecord(s)} ELSE saved
           /\ fin' = [fin EXCEPT ![s] = IF out.result = Ok(<<>>) THEN "done" ELSE "rollback"]
    /\ UNCHANGED <<disk, del, upload, allocated>>

\* the compensating delete, before the error is surfaced
FinalizeRollback(s) ==
    /\ fin[s] = "rollback"
    /\ disk' = disk \ {get_file_path(s)}
    /\ fin' = [fin EXCEPT ![s] = "failed"]
    /\ UNCHANGED <<files, del, saved, upload, allocated>>

NextEngine ==
    \/ \E s \in Sessions : UploadComplete(s)
    \/ \E s \in Sessions, io_ok \in BOOLEAN : FinalizeRename(s, io_ok)
    \/ \E s \in Sessions, db_ok \in BOOLEAN : FinalizeInsert(s, db_ok)
    \/ \E s \in Sessions : FinalizeRollback(s)
    \/ \E p \in DOMAIN del, file_id \in Sessions, db_ok \in BOOLEAN : DeleteLookup(p, file_id, db_ok)
    \/ \E p \in DOMAIN del : DeleteExists(p)
    \/ \E p \in DOMAIN del, io_ok \in BOOLEAN : DeleteRemoveFile(p, io_ok)
    \/ \E p \in DOMAIN del, io_ok \in BOOLEAN : DeleteThumbnail(p, io_ok)
    \/ \E p \in DOMAIN del, db_ok \in BOOLEAN : DeleteRow(p, db_ok)
    \/ Crash

SpecEngine == InitEngine /\ [][NextEngine]_vars

----------------------------------------------------------------------------
(* The store under records of different upload times, sizes and kinds *)

\* times of every sub-second format: none, 3, 6 and 9 digits
QueryTimes ==
    <<[secs |-> 0, nanos |-> 0],
      [secs |-> 0, nanos |-> 500000000],
      [secs |-> 0, nanos |-> 500001000],
      [secs |-> 0, nanos |-> 500001001],
      [secs |-> 10, nanos |-> 0]>>

QueryRecord(i, k) ==
    [id |-> i,
     original_name |-> "test.txt",
     stored_name |-> i,
     file_path |-> get_file_path(i),
     file_size |-> 100 * k,
     upload_time |-> QueryTimes[k],
     is_video |-> (k % 2 = 1),
     thumbnail_path |-> None]

QueryRecords == {QueryRecord(i, k) : i \in Ids, k \in DOMAIN QueryTimes}

\* the first file is in place, no record is inserted yet
InitQuery ==
    /\ files = {}
    /\ saved = {}
    /\ disk = {get_file_path(1)}
    /\ del = [p \in Procs |-> IdleRequest]
    /\ fin = [s \in Sessions |-> "none"]
    /\ upload = NoUploads
    /\ allocated = {}

NextQuery ==
    \/ \E record \in QueryRecords, db_ok \in BOOLEAN : SaveFileRecord(record, db_ok)
    \/ \E p \in DOMAIN del, file_id \in Ids, db_ok \in BOOLEAN : DeleteLookup(p, file_id, db_ok)
    \/ \E p \in DOMAIN del : DeleteExists(p)
    \/ \E p \in DOMAIN del, io_ok \in BOOLEAN : DeleteRemoveFile(p, io_ok)
    \/ \E p \in DOMAIN del, io_ok \in BOOLEAN : DeleteThumbnail(p, io_ok)
    \/ \E p \in DOMAIN del, db_ok \in BOOLEAN : DeleteRow(p, db_ok)
    \/ Crash

SpecQuery == InitQuery /\ [][NextQuery]_vars

----------------------------------------------------------------------------
(* generate_stored_name (file_manager.rs:229-241).  A name is a sequence of  *)
(* characters; Path::extension is std's: the part of the final component    *)
(* after its last '.', unless that '.' is the component's first character.  *)

NameChars == {"a", ".", "/"}

OriginalNames == UNION {[1..n -> NameChars] : n \in 0..MaxNameLen}

\* Uuid::new_v4().to_string(): hexadecimal digits and hyphens
Uuids == {<<x, "-", y>> : x, y \in {"a", "b"}}

\* the pieces of a path between its '/' separators
RECURSIVE SplitSlash(_)
SplitSlash(name) ==
    IF \A i \in DOMAIN name : name[i] # "/"
    THEN <<name>>
    ELSE LET i == CHOOSE k \in DOMAIN name :
                      name[k] = "/" /\ \A j \in 1..(k - 1) : name[j] # "/"
         IN  <<SubSeq(name, 1, i - 1)>> \o SplitSlash(SubSeq(name, i + 1, Len(name)))

IsComponent(piece) == piece # <<>> /\ piece # <<".">>

\* Path::file_name: the final component, unless the path ends in ".."
file_name(name) ==
    LET components == SelectSeq(SplitSlash(name), IsComponent)
    IN  IF components = <<>> \/ components[Len(components)] = <<".", ".">>
        THEN None
        ELSE Some(components[Len(components)])

\* std's rsplit_file_at_dot, then before.and(after)
extension_of_file(file) ==
    IF \A i \in DOMAIN file : file[i] # "."
    THEN None
    ELSE LET i == CHOOSE k \in DOMAIN file :
                      file[k] = "." /\ \A j \in (k + 1)..Len(file) : file[j] # "."
         IN  IF i = 1 THEN None ELSE Some(SubSeq(file, i + 1, Len(file)))

\* Path::extension
extension(name) ==
    IF file_name(name) = None THEN None ELSE extension_of_file(file_name(name)[1])

\* format!("{}.{}", uuid, extension) whatever the extension
generate_stored_name_always_dot(original_name, uuid) ==
    uuid \o <<".">> \o unwrap_or(extension(original_name), <<>>)

generate_stored_name(original_name, uuid) ==
    LET ext == unwrap_or(extension(original_name), <<>>)
    IN  IF ext = <<>> THEN uuid ELSE uuid \o <<".">> \o ext

InitName ==
    /\ files = {}
    /\ saved = {}
    /\ disk = {}
    /\ del = [p \in Procs |-> IdleRequest]
    /\ fin = [s \in Sessions |-> "none"]
    /\ upload = NoUploads
    /\ allocated = {}

GenerateStoredName(original_name, uuid) ==
    /\ allocated' = {[original_name |-> original_name,
                      uuid |-> uuid,
                      stored_name |-> generate_stored_name(original_name, uuid)]}
    /\ UNCHANGED <<files, disk, del, fin, saved, upload>>

NextName ==
    \E original_name \in OriginalNames, uuid \in Uuids :
        GenerateStoredName(original_name, uuid)

SpecName == InitName /\ [][NextName]_vars

----------------------------------------------------------------------------
(* Upload sessions (design 4.3, 4.4): open, writeChunk, isComplete, abort and *)
(* finalize, which rejects an incomplete session and otherwise runs the      *)
(* rename and insert steps above.  received is the set of byte offsets the  *)
(* merged ranges cover.                                                    *)

Sizes == 1..MaxSize

\* true iff the merged ranges form the single interval [0, expected_size)
is_complete(session) == session.received = 0..(session.expected_size - 1)

InitUpload ==
    /\ files = {}
    /\ saved = {}
    /\ disk = {}
    /\ del = [p \in Procs |-> IdleRequest]
    /\ fin = [s \in Sessions |-> "none"]
    /\ upload = NoUploads
    /\ allocated = {}

\* open(original_name, expected_size): a fresh session and its temp file
Open(s, expected_size) ==
    /\ fin[s] = "none"
    /\ fin' = [fin EXCEPT ![s] = "open"]
    /\ upload' = [upload EXCEPT ![s].expected_size = expected_size]
    /\ disk' = disk \cup {TempPath(s)}
    /\ UNCHANGED <<files, del, saved, allocated>>

\* writeChunk(session_id, offset, bytes): refused when it would exceed
\* expected_size, else merged into received_ranges; chunks may overlap
WriteChunk(s, offset, len) ==
    /\ fin[s] = "open"
    /\ upload' = IF offset + len <= upload[s].expected_size
                 THEN [upload EXCEPT ![s].received = @ \cup offset..(offset + len - 1)]
                 ELSE upload
    /\ UNCHANGED <<files, disk, del, fin, saved, allocated>>

\* abort(session_id): deletes the temp file, discards the session
Abort(s) ==
    /\ fin[s] = "open"
    /\ fin' = [fin EXCEPT ![s] = "aborted"]
    /\ upload' = [upload EXCEPT ![s] = NoUploads[s]]
    /\ disk' = disk \ {TempPath(s)}
    /\ UNCHANGED <<files, del, saved, allocated>>

\* finalize(session_id): fails with Validation unless isComplete, otherwise
\* closes the session and goes on to the two-phase commit
Finalize(s) ==
    /\ fin[s] = "open"
    /\ IF is_complete(upload[s])
       THEN /\ fin' = [fin EXCEPT ![s] = "complete"]
            /\ upload' = upload
       ELSE /\ fin' = fin
            /\ upload' = [upload EXCEPT ![s].result = Err("Validation")]
    /\ UNCHANGED <<files, disk, del, saved, allocated>>

NextUpload ==
    \/ \E s \in Sessions, expected_size \in Sizes : Open(s, expected_size)
    \/ \E s \in Sessions, offset \in 0..(MaxSize - 1), len \in Sizes : WriteChunk(s, offset, len)
    \/ \E s \in Sessions : Abort(s)
    \/ \E s \in Sessions : Finalize(s)
    \/ \E s \in Sessions, io_ok \in BOOLEAN : FinalizeRename(s, io_ok)
    \/ \E s \in Sessions, db_ok \in BOOLEAN : FinalizeInsert(s, db_ok)
    \/ \E s \in Sessions : FinalizeRollback(s)

SpecUpload == InitUpload /\ [][NextUpload]_vars

----------------------------------------------------------------------------
(* Two DELETE /api/files/:id requests served at once: the handlers run as    *)
(* separate tasks on the runtime and delete_file holds no lock, so their    *)
(* steps interleave at every await point and file-system call.  No record  *)
(* is inserted and neither the database nor the file system refuses.       *)

Racers == {1, 2}

InitRace ==
    /\ \E S \in SUBSET StoreRecords :
          /\ Consistent(S)
          /\ files = {ToRow(r) : r \in S}
          /\ saved = S
          /\ disk = PathsOf(S)
    /\ del = [p \in Racers |-> IdleRequest]
    /\ fin = [s \in Sessions |-> "none"]
    /\ upload = NoUploads
    /\ allocated = {}

NextRace ==
    \/ \E p \in DOMAIN del, file_id \in Ids : DeleteLookup(p, file_id, TRUE)
    \/ \E p \in DOMAIN del : DeleteExists(p)
    \/ \E p \in DOMAIN del : DeleteRemoveFile(p, TRUE)
    \/ \E p \in DOMAIN del : DeleteThumbnail(p, TRUE)
    \/ \E p \in DOMAIN del : DeleteRow(p, TRUE)

SpecRace == InitRace /\ [][NextRace]_vars

----------------------------------------------------------------------------
(* Properties of the store and of delete_file *)

HasRow(file_id) == \E r \in files : r.id = file_id

RowAt(path) == \E r \in files : r.file_path = path

FilePaths == {get_file_path(n) : n \in Names} \cup {r.file_path : r \in files}

\* C1: in every reachable state a row exists in the table if and only if a
\* file exists on disk at that row's file_path.
C1_RowIffFile == \A path \in FilePaths : RowAt(path) <=> exists(path)

C5_RemoveAbsent ==
    [][\A p \in DOMAIN del :
         (del[p].pc = "idle" /\ del'[p] # del[p] /\ del'[p] # IdleRequest
            /\ ~HasRow(del'[p].file_id))
           => /\ del'[p].pc = "idle"
              /\ del'[p].result \in {Ok(FALSE), Err("Database")}
              /\ del'[p].result = Ok(FALSE) => delete_file_status(del'[p].result) = 404
              /\ files' = files
              /\ disk' = disk]_vars

\* a remove of an absent id has returned Ok(false) while rows and files exist
C5_Witness ==
    \E p \in DOMAIN del :
        /\ del[p].pc = "idle"
        /\ del[p].result = Ok(FALSE)
        /\ ~HasRow(del[p].file_id)
        /\ files # {}
        /\ disk # {}

\* C6: no two rows share an id and no two rows share a stored_name (an insert
\* of a row whose id or stored_name is taken is refused).
C6_UniqueIdAndStoredName ==
    \A a, b \in files : (a.id = b.id \/ a.stored_name = b.stored_name) => a = b

----------------------------------------------------------------------------
(* Properties of finalize *)

\* C2: finalize renames before it inserts, and deletes the renamed file when
\* the insert fails: a row is inserted only when its file is at the canonical
\* path; until finalize has returned success (a crash between the two steps
\* included) a row of the session exists only if its file does; and when the
\* failure is surfaced neither the row nor the file remains.
C2_RenameThenInsert ==
    [][/\ \A r \in files' \ files : r.file_path \in disk /\ r.file_path \in disk'
       /\ \A s \in Sessions :
            /\ fin'[s] # "done" =>
                 ((\E r \in files' : r.id = s) => get_file_path(s) \in disk')
            /\ fin'[s] = "failed" =>
                 (~(\E r \in files' : r.id = s) /\ get_file_path(s) \notin disk')]_vars

\* the insert failed after the rename and the rollback has run, while another
\* session crashed between its rename and its insert
C2_Witness ==
    \E s, t \in Sessions :
        /\ fin[s] = "failed" /\ ~exists(TempPath(s))
        /\ ~HasRow(s) /\ ~exists(get_file_path(s))
        /\ fin[t] = "crashed" /\ exists(get_file_path(t)) /\ ~HasRow(t)

----------------------------------------------------------------------------
(* Properties of the queries, against the committed records `saved` *)

RECURSIVE SumOfSizes(_)
SumOfSizes(S) ==
    IF S = {} THEN 0
    ELSE LET r == CHOOSE x \in S : TRUE IN r.file_size + SumOfSizes(S \ {r})

\* C7: after any inserts and removes get_file_stats succeeds with total_files
\* the number of committed records, total_size the sum of their file_size (0
\* when there is none) and video_count the number of them with is_video.
C7_Stats ==
    get_file_stats(files) =
        Ok([total_files |-> Cardinality(saved),
            total_size |-> SumOfSizes(saved),
            video_count |-> Cardinality({r \in saved : r.is_video})])

\* sizes 100 and 200, one video, after a remove has completed
C7_Witness ==
    /\ get_file_stats(files) = Ok([total_files |-> 2, total_size |-> 300, video_count |-> 1])
    /\ \E p \in DOMAIN del : del[p].result = Ok(TRUE)

\* a is later than b
Later(a, b) == a.secs > b.secs \/ (a.secs = b.secs /\ a.nanos > b.nanos)

\* the sequences of all committed records, latest upload_time first
ByUploadTimeDesc ==
    {all \in [1..Cardinality(saved) -> saved] :
        /\ \A i, j \in DOMAIN all : i # j => all[i] # all[j]
        /\ \A i, j \in DOMAIN all : i < j => ~Later(all[j].upload_time, all[i].upload_time)}

Limits == {None} \cup {Some(n) : n \in 1..MaxLimit}

Offsets == {None} \cup {Some(n) : n \in 0..MaxLimit}

\* C8: for a positive limit (50 when None) and an offset >= 0 (0 when None)
\* list_files returns the records at positions offset .. offset+limit-1 of
\* the committed records ordered by upload_time descending, fewer when the
\* table ends: only committed records, none twice.
C8_ListPage ==
    LET sorted == ByUploadTimeDesc
    IN  \A limit \in Limits, offset \in Offsets :
            LET lim == IF limit = None THEN 50 ELSE limit[1]
                off == IF offset = None THEN 0 ELSE offset[1]
                pages == {SubSeq(all, off + 1,
                                 IF off + lim > Len(all) THEN Len(all) ELSE off + lim)
                          : all \in sorted}
            IN  \A res \in list_files(files, limit, offset) :
                    /\ res.ok
                    /\ res.value \in pages
                    /\ \A i \in DOMAIN res.value : res.value[i] \in saved
                    /\ \A i, j \in DOMAIN res.value : i # j => res.value[i] # res.value[j]

\* the second page of one record out of two rows whose times are stored as
\* texts of different lengths
C8_Witness ==
    /\ Cardinality(files) = 2
    /\ \E a, b \in files : Len(a.upload_time) < Len(b.upload_time)
    /\ \E res \in list_files(files, Some(1), Some(1)) : res.ok /\ Len(res.value) = 1

\* C9: get_file_by_id returns Ok(None) for an id that has no row, and for a
\* record whose insert succeeded it returns that record, equal in every
\* field, until the row is removed.
C9_GetById ==
    /\ \A id \in Ids : ~HasRow(id) => get_file_by_id(files, id) = Ok(None)
    /\ \A r \in saved : get_file_by_id(files, r.id) = Ok(Some(r))

\* a record with nanosecond precision is read back, another id was removed
C9_Witness ==
    /\ \E r \in saved :
         /\ r.upload_time.nanos % 1000 # 0
         /\ get_file_by_id(files, r.id) = Ok(Some(r))
    /\ \E p \in DOMAIN del :
         /\ del[p].pc = "idle" /\ del[p].result = Ok(TRUE)
         /\ get_file_by_id(files, del[p].file_id) = Ok(None)

----------------------------------------------------------------------------
(* Properties of generate_stored_name *)

HasDot(text) == \E i \in DOMAIN text : text[i] = "."

\* e is the extension of the file component: what follows its last '.', which
\* is not its first character; e is not empty
IsExtensionOf(e, file) ==
    /\ e # <<>>
    /\ ~HasDot(e)
    /\ Len(file) > Len(e) + 1
    /\ SubSeq(file, Len(file) - Len(e), Len(file)) = <<".">> \o e

\* C11: when the original name has an extension e the stored name is the
\* token followed by '.' and e, and when it has none the stored name is the
\* bare token, which has no '.'.
C11_ExtensionPreserved ==
    \A call \in allocated :
        LET file == file_name(call.original_name)
            exts == IF file = None THEN {}
                    ELSE {e \in OriginalNames : IsExtensionOf(e, file[1])}
        IN  /\ ~HasDot(call.uuid)
            /\ \A e \in exts : call.stored_name = call.uuid \o <<".">> \o e
            /\ exts = {} => (call.stored_name = call.uuid /\ ~HasDot(call.stored_name))

\* a path whose final component is a.a is stored as the token, '.' and a
C11_Witness ==
    \E call \in allocated :
        /\ call.original_name = <<"/", "a", ".", "a">>
        /\ call.stored_name = call.uuid \o <<".", "a">>

----------------------------------------------------------------------------
(* Properties of the error kinds *)

\* C12: a failure keeps its kind and the kind has its own status: NotFound
\* 404, Validation 400, I/O and persistence failures 500, and an insert whose
\* id or stored_name is already in the table fails with Conflict, 409.
C12_KindsKeepTheirStatus ==
    /\ status_code("NotFound") = 404
    /\ status_code("Validation") = 400
    /\ status_code("Io") = 500
    /\ status_code("Database") = 500
    /\ \A record \in QueryRecords :
           LET out == save_file_record(files, record, TRUE).result
               duplicate == \E r \in files : \/ r.id = record.id
                                              \/ r.stored_name = record.stored_name
           IN  duplicate => /\ ~out.ok
                            /\ out.error = "Conflict"
                            /\ status_code(out.error) = 409

----------------------------------------------------------------------------
(* Properties of incomplete uploads *)

\* the session is open and its received ranges do not cover [0, expected_size)
Incomplete(s) == fin[s] = "open" /\ ~is_complete(upload[s])

\* a record of the session, or a file at its stored path, can be read
Visible(s) ==
    \/ get_file_by_id(files, s) # Ok(None)
    \/ \E page \in list_files(files, None, None) :
           \E i \in DOMAIN page.value : page.value[i].id = s
    \/ exists(get_file_path(s))

\* C13: for a session whose received ranges do not cover [0, expected_size)
\* finalize fails with Validation and changes neither the table nor the
\* disk, and no record or file of the session is visible through getById or
\* list while the session is incomplete.
C13_IncompleteNeverVisible ==
    /\ [](\A s \in Sessions : Incomplete(s) => ~Visible(s))
    /\ [][\A s \in Sessions :
              Incomplete(s) /\ Finalize(s) =>
                  /\ upload'[s].result = Err("Validation")
                  /\ fin'[s] = "open"
                  /\ UNCHANGED <<files, disk>>]_vars

\* finalize has failed on a session that holds the first byte of two
C13_Witness ==
    \E s \in Sessions :
        /\ Incomplete(s)
        /\ upload[s].received = {0}
        /\ upload[s].result = Err("Validation")
        /\ exists(TempPath(s))

----------------------------------------------------------------------------
(* Properties of concurrent removes and of the limit of a listing *)

\* C14: of the remove calls on one id whose row is never inserted again, at
\* most one returns true, and the others report that the record does not
\* exist: none returns true as well and none fails.
C14_OneRemoveWins ==
    /\ \A p \in DOMAIN del : del[p].result \in {Pending, Ok(TRUE), Ok(FALSE)}
    /\ \A p, q \in DOMAIN del :
           (p # q /\ del[p].file_id = del[q].file_id /\ del[p].result = Ok(TRUE))
               => del[q].result # Ok(TRUE)

\* C15: a listing with a supplied limit has at most that many records, and
\* none when the limit is zero or negative.
C15_PositiveLimitOnly ==
    \A limit \in (0 - MaxLimit)..MaxLimit :
        \A page \in list_files(files, Some(limit), None) :
            page.ok => /\ Len(page.value) <= limit \/ page.value = <<>>
                       /\ limit <= 0 => page.value = <<>>

====
